---- MODULE Spec2Model ----
(***************************************************************************)
(* A model of the sarfile package: the header codec (_header.py), the      *)
(* member view TarItem (_item.py) and the archive class (_sarfile.py).     *)
(*                                                                         *)
(* Data representation                                                     *)
(*   byte        a number in 0..255; bytes objects are sequences of bytes  *)
(*   str         a sequence of Unicode code points                         *)
(*   file length a Python int in the unsigned 64-bit range, written as its *)
(*               eight base-256 digits, least significant first (TLC's     *)
(*               integers stop at 2^31-1, the format needs 2^64-1).        *)
(*               IntOf gives the number back where TLC can hold it, below  *)
(*               2^31; Small tells whether it can.                         *)
(*   positions, offsets, name lengths: ordinary integers                   *)
(*   a call's outcome: [ok, val, err]; err names the Python exception      *)
(***************************************************************************)
EXTENDS Integers, Sequences, FiniteSets, TLC

VARIABLES
    m, enc, wire, dec,                 \* codec: Header input, encoded bytes, bytes handed to
                                       \* decode (and how they were made), decoded result
    hdr, cur, base, depth, parts, offs,\* sharding: root header, current shard, its parts, offsets
    members, packer, srcKind,          \* archive: member sources, pack path, kind of open() source
    disk, sar, fps, items, last        \* archive file, handle, streams, member views, last call

codecVars == <<m, enc, wire, dec>>
shardVars == <<hdr, cur, base, depth, parts, offs>>
archVars  == <<members, packer, srcKind, disk, sar, fps, items, last>>
vars == <<m, enc, wire, dec, hdr, cur, base, depth, parts, offs,
          members, packer, srcKind, disk, sar, fps, items, last>>

(***************************************************************************)
(* Bounds                                                                  *)
(***************************************************************************)
MaxFiles == 2          \* members of a header given to the codec
LongNameLen == 256     \* bytes of the long name: its length needs a 2-byte column
MaxShardFiles == 7     \* members of a header that is sharded
MaxShards == 3         \* total_shards
MaxMembers == 2        \* source members given to pack
MaxStreams == 2        \* streams opened on one archive (the header's and the views')
MaxSeek == 0           \* |offset| of a seek on one of two views
MaxOff == 3            \* |offset| of a seek on the single view, from 0 or from -(file size)

(***************************************************************************)
(* Outcomes                                                                *)
(***************************************************************************)
None == [none |-> TRUE]
Ok(v) == [ok |-> TRUE, val |-> v, err |-> "none"]
Fail(e) == [ok |-> FALSE, val |-> <<>>, err |-> e]

Min(a, b) == IF a < b THEN a ELSE b
Max(a, b) == IF a < b THEN b ELSE a

\* Python slices b[:k] and b[k:] for k >= 0 (a slice clamps to the length)
Take(b, k) == SubSeq(b, 1, Min(k, Len(b)))
Drop(b, k) == SubSeq(b, Min(k, Len(b)) + 1, Len(b))

\* b"".join(ss), by halves
RECURSIVE Concat(_)
Concat(ss) ==
    IF Len(ss) = 0 THEN <<>>
    ELSE IF Len(ss) = 1 THEN ss[1]
    ELSE LET h == Len(ss) \div 2
         IN Concat(SubSeq(ss, 1, h)) \o Concat(SubSeq(ss, h + 1, Len(ss)))

RECURSIVE SumSeq(_)
SumSeq(s) == IF s = <<>> THEN 0 ELSE Head(s) + SumSeq(Tail(s))

(***************************************************************************)
(* Python ints as base-256 digits                                          *)
(***************************************************************************)
RECURSIVE Digits(_, _)
Digits(n, k) == IF k = 0 THEN <<>> ELSE <<(n % 256)>> \o Digits(n \div 256, k - 1)

\* the eight little-endian bytes of a small number
U64(n) == Digits(n, 8)

\* digits above position k are all zero: the number is < 2^(8k)
Below(d, k) == \A i \in (k + 1)..Len(d) : d[i] = 0

\* the number is one TLC's integers hold: it is < 2^31
Small(d) == Below(d, 4) /\ d[4] < 128

\* the number eight little-endian digits stand for (struct.unpack("<Q")),
\* most significant digit first so that no intermediate value is larger than
\* the number itself; it has a value for every Small(d)
IntOf(d) ==
    ((((((d[8] * 256 + d[7]) * 256 + d[6]) * 256 + d[5]) * 256 + d[4]) * 256
        + d[3]) * 256 + d[2]) * 256 + d[1]

\* a < b on digit strings of equal length
U64Less(a, b) ==
    \E i \in 1..Len(a) : a[i] < b[i] /\ \A j \in (i + 1)..Len(a) : a[j] = b[j]

\* max() of a non-empty list of digit strings
RECURSIVE U64Max(_)
U64Max(s) ==
    IF Len(s) = 1 THEN s[1]
    ELSE LET r == U64Max(Tail(s)) IN IF U64Less(s[1], r) THEN r ELSE s[1]

RECURSIVE NatMax(_)
NatMax(s) ==
    IF Len(s) = 1 THEN s[1]
    ELSE LET r == NatMax(Tail(s)) IN IF s[1] < r THEN r ELSE s[1]

(***************************************************************************)
(* UTF-8: str.encode("utf-8") and bytes.decode("utf-8")                    *)
(***************************************************************************)
utf8_char(cp) ==
    IF cp < 128 THEN <<cp>>
    ELSE IF cp < 2048 THEN <<192 + (cp \div 64), 128 + (cp % 64)>>
    ELSE IF cp < 65536 THEN
        <<224 + (cp \div 4096), 128 + ((cp \div 64) % 64), 128 + (cp % 64)>>
    ELSE <<240 + (cp \div 262144), 128 + ((cp \div 4096) % 64),
           128 + ((cp \div 64) % 64), 128 + (cp % 64)>>

utf8_encode(s) == Concat([i \in 1..Len(s) |-> utf8_char(s[i])])

IsCont(b, i) == i <= Len(b) /\ b[i] >= 128 /\ b[i] < 192

\* strict decoding, character by character: <<-1>> stands for UnicodeDecodeError
RECURSIVE utf8_decode_seq(_)
utf8_decode_seq(b) ==
    IF b = <<>> THEN <<>>
    ELSE LET b1 == b[1]
             n  == IF b1 < 128 THEN 1
                   ELSE IF b1 >= 194 /\ b1 <= 223 THEN 2
                   ELSE IF b1 >= 224 /\ b1 <= 239 THEN 3
                   ELSE IF b1 >= 240 /\ b1 <= 244 THEN 4
                   ELSE 0
             wellFormed == n > 0 /\ \A i \in 2..n : IsCont(b, i)
             cp == IF n = 1 THEN b1
                   ELSE IF n = 2 THEN (b1 - 192) * 64 + (b[2] - 128)
                   ELSE IF n = 3 THEN (b1 - 224) * 4096 + (b[2] - 128) * 64 + (b[3] - 128)
                   ELSE (b1 - 240) * 262144 + (b[2] - 128) * 4096
                        + (b[3] - 128) * 64 + (b[4] - 128)
             valid == \/ n = 1
                      \/ n = 2
                      \/ n = 3 /\ cp >= 2048 /\ ~(cp >= 55296 /\ cp <= 57343)
                      \/ n = 4 /\ cp >= 65536 /\ cp <= 1114111
         IN IF ~wellFormed THEN <<-1>>
            ELSE IF ~valid THEN <<-1>>
            ELSE LET rest == utf8_decode_seq(Drop(b, n))
                 IN IF rest = <<-1>> THEN <<-1>> ELSE <<cp>> \o rest

\* the same decoding of a long string, cut at a character boundary near the
\* middle (a character is at most 4 bytes, so a boundary lies within 4 bytes)
RECURSIVE utf8_decode(_)
utf8_decode(b) ==
    IF Len(b) <= 8 THEN utf8_decode_seq(b)
    ELSE LET h == Len(b) \div 2
             cuts == {p \in h..(h + 3) : ~IsCont(b, p)}
         IN IF cuts = {} THEN <<-1>>
            ELSE LET p == CHOOSE q \in cuts : \A r \in cuts : q <= r
                     left == utf8_decode(SubSeq(b, 1, p - 1))
                     right == utf8_decode(SubSeq(b, p, Len(b)))
                 IN IF left = <<-1>> \/ right = <<-1>> THEN <<-1>> ELSE left \o right

(***************************************************************************)
(* struct.pack / struct.unpack of n integers at a width of w bytes         *)
(***************************************************************************)
\* struct.pack("<1X", v): v fits iff it is below 2^(8w); struct.error otherwise
struct_fits(v, w) == Below(v, w)
struct_pack1(v, w) == SubSeq(v, 1, w)

RECURSIVE struct_pack(_, _)
struct_pack(vs, w) ==
    IF vs = <<>> THEN <<>> ELSE struct_pack1(Head(vs), w) \o struct_pack(Tail(vs), w)

\* struct.unpack("<nX", b) with Len(b) = n*w: n digit strings of 8 digits
struct_unpack(b, n, w) ==
    [i \in 1..n |-> SubSeq(b, (i - 1) * w + 1, i * w) \o [k \in 1..(8 - w) |-> 0]]

(***************************************************************************)
(* Header                                                                  *)
(***************************************************************************)
Header(files, init_offset) == [files |-> files, init_offset |-> init_offset]

\* a variant with the first threshold off by one (n <= 2**8)
get_byte_enc_and_dtype_le(n) ==
    IF Below(n, 1) \/ n = <<0, 1, 0, 0, 0, 0, 0, 0>> THEN 1
    ELSE IF Below(n, 2) THEN 2
    ELSE IF Below(n, 4) THEN 4
    ELSE 8

\* a variant that always takes the widest column
get_byte_enc_and_dtype_q(n) == 8

get_byte_enc_and_dtype(n) ==
    IF Below(n, 1) THEN 1
    ELSE IF Below(n, 2) THEN 2
    ELSE IF Below(n, 4) THEN 4
    ELSE 8

encode(h) ==
    LET N == Len(h.files)
        file_lengths == [i \in 1..N |-> h.files[i][2]]
        names_bytes == [i \in 1..N |-> utf8_encode(h.files[i][1])]
        names_bytes_lengths == [i \in 1..N |-> Len(names_bytes[i])]
    IN IF N = 0 THEN Fail("ValueError")
       ELSE LET file_lengths_dtype_int == get_byte_enc_and_dtype(U64Max(file_lengths))
                name_lengths_dtype_int ==
                    get_byte_enc_and_dtype(U64(NatMax(names_bytes_lengths)))
                nbl == [i \in 1..N |-> U64(names_bytes_lengths[i])]
            IN IF \/ \E i \in 1..N : ~struct_fits(file_lengths[i], file_lengths_dtype_int)
                  \/ \E i \in 1..N : ~struct_fits(nbl[i], name_lengths_dtype_int)
               THEN Fail("struct.error")
               ELSE Ok(<<file_lengths_dtype_int>> \o <<name_lengths_dtype_int>>
                       \o U64(N)
                       \o struct_pack(file_lengths, file_lengths_dtype_int)
                       \o struct_pack(nbl, name_lengths_dtype_int)
                       \o Concat(names_bytes))

\* a variant that takes every width from 1 to 8
get_dtype_from_int_wide(n) == n \in 1..8

get_dtype_from_int(n) == n \in {1, 2, 4, 8}

\* the loop of decode over the name lengths: <<names, leftover bytes>>
RECURSIVE decode_names(_, _)
decode_names(lens, b) ==
    IF lens = <<>> THEN <<<<>>, b>>
    ELSE LET k == IF Small(Head(lens)) THEN IntOf(Head(lens)) ELSE Len(b)
             name_bytes == Take(b, k)
             rest == decode_names(Tail(lens), Drop(b, k))
         IN <<<<utf8_decode(name_bytes)>> \o rest[1], rest[2]>>

decode(b) ==
    IF Len(b) < 2 THEN Fail("struct.error")
    ELSE IF ~get_dtype_from_int(b[1]) \/ ~get_dtype_from_int(b[2]) THEN Fail("ValueError")
    ELSE LET w1 == b[1]
             w2 == b[2]
             b2 == Drop(b, 2)
         IN IF Len(b2) < 8 THEN Fail("struct.error")
            ELSE LET nf == Take(b2, 8)
                     b3 == Drop(b2, 8)
                    \* struct.unpack fails on a buffer shorter than the count
                    \* asks for: any buffer is, for a count that is not Small,
                    \* and Len(b3) < num_files * w1 is compared without the
                    \* product
                 IN IF ~Small(nf) THEN Fail("struct.error")
                    ELSE LET num_files == IntOf(nf)
                             fl_bytes == num_files * w1
                             nl_bytes == num_files * w2
                             b4 == Drop(b3, fl_bytes)
                             b5 == Drop(b4, nl_bytes)
                         IN IF Len(b3) \div w1 < num_files \/ Len(b4) \div w2 < num_files
                            THEN Fail("struct.error")
                            ELSE LET file_lengths == struct_unpack(Take(b3, fl_bytes), num_files, w1)
                                     names_bytes_lengths ==
                                         struct_unpack(Take(b4, nl_bytes), num_files, w2)
                                     r == decode_names(names_bytes_lengths, b5)
                                 IN IF \E i \in 1..num_files : r[1][i] = <<-1>>
                                    THEN Fail("UnicodeDecodeError")
                                    ELSE IF Len(r[2]) # 0 THEN Fail("AssertionError")
                                    ELSE Ok(Header([i \in 1..num_files |->
                                                       <<r[1][i], file_lengths[i]>>], 0))


\* Header.write: the 8-byte length of the encoded header, then the encoded header
write(h) ==
    LET e == encode(h)
    IN IF ~e.ok THEN e ELSE Ok(U64(Len(e.val)) \o e.val)

\* the byte lengths of the members of h, as numbers
num_bytes_of(h) == [i \in 1..Len(h.files) |-> IntOf(h.files[i][2])]

\* Python slice s[a:b] for 0 <= a, b
Slice(s, a, b) == SubSeq(s, Min(a, Len(s)) + 1, Min(b, Len(s)))

\* math.ceil(n / d) for n >= 0, d >= 1
ceil_div(n, d) == (n + d - 1) \div d

\* a variant that rounds the block size down
shard_floor(h, shard_id, total_shards) ==
    LET num_files == Len(h.files)
        num_files_per_shard == num_files \div total_shards
        start == shard_id * num_files_per_shard
        end == Min((shard_id + 1) * num_files_per_shard, num_files)
        shard_offset == SumSeq(Slice(num_bytes_of(h), 0, start))
    IN Header(Slice(h.files, start, end), h.init_offset + shard_offset)

\* a variant that forgets the init_offset of the header it shards
shard_no_init(h, shard_id, total_shards) ==
    LET num_files == Len(h.files)
        num_files_per_shard == ceil_div(num_files, total_shards)
        start == shard_id * num_files_per_shard
        end == Min((shard_id + 1) * num_files_per_shard, num_files)
        shard_offset == SumSeq(Slice(num_bytes_of(h), 0, start))
    IN Header(Slice(h.files, start, end), shard_offset)

\* a variant that skips the offset sum when the shard has no members
shard_no_skip(h, shard_id, total_shards) ==
    LET num_files == Len(h.files)
        num_files_per_shard == ceil_div(num_files, total_shards)
        start == shard_id * num_files_per_shard
        end == Min((shard_id + 1) * num_files_per_shard, num_files)
        shard_offset == IF start >= num_files THEN 0
                        ELSE SumSeq(Slice(num_bytes_of(h), 0, start))
    IN Header(Slice(h.files, start, end), h.init_offset + shard_offset)

shard(h, shard_id, total_shards) ==
    LET num_files == Len(h.files)
        num_files_per_shard == ceil_div(num_files, total_shards)
        start == shard_id * num_files_per_shard
        end == Min((shard_id + 1) * num_files_per_shard, num_files)
        shard_offset == SumSeq(Slice(num_bytes_of(h), 0, start))
    IN Header(Slice(h.files, start, end), h.init_offset + shard_offset)

\* itertools.accumulate(..., initial=0): the running sums, starting with 0
accumulate(s) == [i \in 1..(Len(s) + 1) |-> SumSeq(SubSeq(s, 1, i - 1))]

_offsets(h, header_size) ==
    LET acc == accumulate(num_bytes_of(h))
    IN [i \in 1..Len(acc) |-> acc[i] + header_size + h.init_offset]

(***************************************************************************)
(* Constants of the format                                                 *)
(***************************************************************************)
MAGIC == <<83, 65, 82, 10>>
PRE_HEADER_SIZE == Len(MAGIC) + 8

(***************************************************************************)
(* The underlying binary stream: a file object opened "rb" over data.      *)
(* fp = [pos, closed]; every operation gives [out, fp].                    *)
(***************************************************************************)
Res(out, fp) == [out |-> out, fp |-> fp]

fp_tell(fp) ==
    IF fp.closed THEN Res(Fail("ValueError"), fp) ELSE Res(Ok(fp.pos), fp)

fp_read(fp, data, n) ==
    IF fp.closed THEN Res(Fail("ValueError"), fp)
    ELSE IF n < -1 THEN Res(Fail("ValueError"), fp)
    ELSE LET avail == IF fp.pos >= Len(data) THEN <<>> ELSE Drop(data, fp.pos)
             got == IF n = -1 THEN avail ELSE Take(avail, n)
         IN Res(Ok(got), [fp EXCEPT !.pos = fp.pos + Len(got)])

fp_seek(fp, data, offset, whence) ==
    IF fp.closed THEN Res(Fail("ValueError"), fp)
    ELSE LET target == IF whence = 0 THEN offset
                       ELSE IF whence = 1 THEN fp.pos + offset
                       ELSE Len(data) + offset
         IN IF target < 0 THEN Res(Fail("OSError"), fp)
            ELSE Res(Ok(target), [fp EXCEPT !.pos = target])

fp_close(fp) == [fp EXCEPT !.closed = TRUE]

(***************************************************************************)
(* TarItem: item = [name, num_bytes, start, end, fp], fp an index in fps   *)
(***************************************************************************)
\* TarItem.__init__ on an open stream
TarItem(name, num_bytes, fpid, fp) ==
    IF fp.closed THEN Fail("ValueError")
    ELSE Ok([name |-> name, num_bytes |-> num_bytes, start |-> fp.pos,
             end |-> fp.pos + num_bytes, fp |-> fpid])

\* a variant with the other boundary policy: a read that would cross the end
\* is cut at the end
read_clamp(it, fp, data, n) ==
    IF fp.closed THEN Res(Fail("ValueError"), fp)
    ELSE IF n < 0 THEN fp_read(fp, data, it.end - fp.pos)
    ELSE IF fp.pos + n > it.end THEN fp_read(fp, data, Max(it.end - fp.pos, 0))
    ELSE fp_read(fp, data, n)

read(it, fp, data, n) ==
    IF fp.closed THEN Res(Fail("ValueError"), fp)
    ELSE IF n < 0 THEN fp_read(fp, data, it.end - fp.pos)
    ELSE IF fp.pos + n > it.end THEN Res(Fail("ValueError"), fp)
    ELSE fp_read(fp, data, n)

seek(it, fp, data, offset, whence) ==
    IF whence = 0 THEN
        IF offset < 0 THEN Res(Fail("ValueError"), fp)
        ELSE IF offset >= it.num_bytes THEN Res(Fail("ValueError"), fp)
        ELSE fp_seek(fp, data, it.start + offset, whence)
    ELSE IF whence = 1 THEN
        IF offset < 0 THEN Res(Fail("ValueError"), fp)
        ELSE IF fp.closed THEN Res(Fail("ValueError"), fp)
        ELSE IF fp.pos + offset >= it.end THEN Res(Fail("ValueError"), fp)
        ELSE fp_seek(fp, data, offset, whence)
    ELSE IF whence = 2 THEN
        IF offset > 0 THEN Res(Fail("ValueError"), fp)
        ELSE IF fp.closed THEN Res(Fail("ValueError"), fp)
        ELSE IF fp.pos + offset < it.start THEN Res(Fail("ValueError"), fp)
        ELSE fp_seek(fp, data, it.start + it.num_bytes + offset, whence)
    ELSE Res(Fail("ValueError"), fp)

tell(it, fp) ==
    LET t == fp_tell(fp)
    IN IF ~t.out.ok THEN t ELSE Res(Ok(t.out.val - it.start), fp)

\* readline, readlines, truncate, write, writelines, __iter__, __next__
readline(it, fp) == Res(Fail("NotImplementedError"), fp)
readlines(it, fp) == Res(Fail("NotImplementedError"), fp)
truncate(it, fp) == Res(Fail("NotImplementedError"), fp)
\* a variant that fails the way the io classes do, with io.UnsupportedOperation
TarItem_write_io(it, fp) == Res(Fail("UnsupportedOperation"), fp)
TarItem_write(it, fp) == Res(Fail("NotImplementedError"), fp)
writelines(it, fp) == Res(Fail("NotImplementedError"), fp)
__iter__(it, fp) == Res(Fail("NotImplementedError"), fp)
__next__(it, fp) == Res(Fail("NotImplementedError"), fp)

writable(it, fp) == FALSE

UnsupportedOps ==
    {"readline", "readlines", "truncate", "write", "writelines", "__iter__", "__next__"}
unsupported(op, it, fp) ==
    CASE op = "readline" -> readline(it, fp)
      [] op = "readlines" -> readlines(it, fp)
      [] op = "truncate" -> truncate(it, fp)
      [] op = "write" -> TarItem_write(it, fp)
      [] op = "writelines" -> writelines(it, fp)
      [] op = "__iter__" -> __iter__(it, fp)
      [] op = "__next__" -> __next__(it, fp)

close(it, fp) == fp_close(fp)

closed(it, fp) == fp.closed


(***************************************************************************)
(* sarfile.  A source is [kind |-> "path"] or [kind |-> "stream", id |-> i]*)
(* (an already open stream, fps[i]).  data is the content of the file.     *)
(* An operation that opens streams gives [out, fps].                       *)
(***************************************************************************)
NewFp == [pos |-> 0, closed |-> FALSE]

FRes(out, f) == [out |-> out, fps |-> f]

\* a variant that keeps one stream per handle: it reuses a stream that is
\* still open instead of opening the path again
_maybe_open_sar_read_cached(src, f) ==
    IF src.kind = "path" THEN
        IF \E i \in 1..Len(f) : ~f[i].closed
        THEN FRes(Ok(CHOOSE i \in 1..Len(f) : ~f[i].closed), f)
        ELSE FRes(Ok(Len(f) + 1), Append(f, NewFp))
    ELSE IF f[src.id].closed THEN FRes(Fail("ValueError"), f)
    ELSE FRes(Ok(src.id), f)

_maybe_open_sar_read(src, f) ==
    IF src.kind = "path" THEN FRes(Ok(Len(f) + 1), Append(f, NewFp))
    ELSE IF f[src.id].closed THEN FRes(Fail("ValueError"), f)
    ELSE FRes(Ok(src.id), f)

\* the return of _read_header: (header, header_num_bytes), or decode's error
header_result(d, header_num_bytes, fp) ==
    IF ~d.ok THEN Res(d, fp) ELSE Res(Ok(<<d.val, header_num_bytes>>), fp)

\* a variant that trusts the file: it does not compare the magic
read_header_body_nomagic(fp, data) ==
    IF fp.pos # 0 THEN Res(Fail("ValueError"), fp)
    ELSE LET r1 == fp_read(fp, data, PRE_HEADER_SIZE)
             init_bytes == r1.out.val
         IN IF Len(Drop(init_bytes, Len(MAGIC))) # 8 THEN Res(Fail("struct.error"), r1.fp)
            ELSE LET hn == Drop(init_bytes, Len(MAGIC))
                     header_num_bytes == IntOf(hn)
                     r2 == fp_read(r1.fp, data, header_num_bytes)
                 IN header_result(decode(r2.out.val), header_num_bytes, r2.fp)

\* the body of the with block of _read_header, on the open stream fp
read_header_body(fp, data) ==
    IF fp.pos # 0 THEN Res(Fail("ValueError"), fp)
    ELSE LET r1 == fp_read(fp, data, PRE_HEADER_SIZE)
             init_bytes == r1.out.val
         IN IF Take(init_bytes, Len(MAGIC)) # MAGIC THEN Res(Fail("IOError"), r1.fp)
            ELSE IF Len(Drop(init_bytes, Len(MAGIC))) # 8 THEN Res(Fail("struct.error"), r1.fp)
            ELSE LET hn == Drop(init_bytes, Len(MAGIC))
                     header_num_bytes == IntOf(hn)
                     r2 == fp_read(r1.fp, data, header_num_bytes)
                 IN header_result(decode(r2.out.val), header_num_bytes, r2.fp)

\* leaving the with block, with a result or an error: the stream is closed
with_exit(f, id, r) == FRes(r.out, [f EXCEPT ![id] = fp_close(r.fp)])

_read_header(src, f, data) ==
    LET o == _maybe_open_sar_read(src, f)
    IN IF ~o.out.ok THEN o
       ELSE with_exit(o.fps, o.out.val, read_header_body(o.fps[o.out.val], data))

\* sarfile.__init__ on what _read_header returned
sarfile(src, r) ==
    IF ~r.out.ok THEN r
    ELSE FRes(Ok([fp |-> src, header |-> r.out.val[1],
                  offsets |-> _offsets(r.out.val[1], PRE_HEADER_SIZE + r.out.val[2])]),
              r.fps)

\* sarfile.open
open(src, f, data) == sarfile(src, _read_header(src, f, data))

names(s) == [i \in 1..Len(s.header.files) |-> s.header.files[i][1]]

len(s) == Len(s.header.files)

\* name_index: a dict built in order, so the last member of a name wins; 0-based
HasName(s, name) == \E i \in 1..len(s) : names(s)[i] = name
name_index(s, name) ==
    (CHOOSE i \in 1..len(s) :
        names(s)[i] = name /\ \A j \in (i + 1)..len(s) : names(s)[j] # name) - 1

\* Python list indexing with an int: valid for -Len <= i < Len
PyValid(l, i) == i >= -Len(l) /\ i < Len(l)
PyAt(l, i) == IF i >= 0 THEN l[i + 1] ELSE l[Len(l) + i + 1]

\* the index of handle[index]: an int v, or (str) a name
IntIndex(i) == [str |-> FALSE, v |-> i, name |-> <<>>]
StrIndex(name) == [str |-> TRUE, v |-> 0, name |-> name]

getitem(s, f, data, index) ==
    LET o == _maybe_open_sar_read(s.fp, f)
    IN IF ~o.out.ok THEN o
       ELSE IF index.str /\ ~HasName(s, index.name) THEN FRes(Fail("KeyError"), o.fps)
       ELSE LET i == IF index.str THEN name_index(s, index.name) ELSE index.v
                id == o.out.val
            IN IF ~PyValid(s.header.files, i) THEN FRes(Fail("IndexError"), o.fps)
               ELSE LET name == PyAt(s.header.files, i)[1]
                        num_bytes == IntOf(PyAt(s.header.files, i)[2])
                        sk == fp_seek(o.fps[id], data, PyAt(s.offsets, i), 0)
                        f2 == [o.fps EXCEPT ![id] = sk.fp]
                    IN IF ~sk.out.ok THEN FRes(sk.out, f2)
                       ELSE FRes(TarItem(name, num_bytes, id, sk.fp), f2)

(***************************************************************************)
(* Packing.  srcs is the ordered list of source members, [name, data, src]:*)
(* the files found on disk (pack_files) or the members of the tar          *)
(* (pack_tar); src tells whether the bytes can be had: "ok", "noopen" (the *)
(* open fails) or "noread" (the open succeeds, the first read fails).      *)
(* A pack gives [out, disk]; disk is None while the output does not exist. *)
(***************************************************************************)
PRes(out, d) == [out |-> out, disk |-> d]

\* an exception whose message or filename carries the name of a member
FailOn(e, name) == [ok |-> FALSE, val |-> <<name>>, err |-> e]

\* whether the bytes a name resolves to can be had (the last source of that name)
src_of(srcs, name) ==
    LET i == CHOOSE i \in 1..Len(srcs) :
                 srcs[i].name = name /\ \A j \in (i + 1)..Len(srcs) : srcs[j].name # name
    IN srcs[i].src

\* the first listed member the copy loop cannot copy, 0 if it copies them all
first_bad(srcs, fws) ==
    IF \A k \in 1..Len(fws) : src_of(srcs, fws[k][1]) = "ok" THEN 0
    ELSE CHOOSE k \in 1..Len(fws) :
             /\ src_of(srcs, fws[k][1]) # "ok"
             /\ \A j \in 1..(k - 1) : src_of(srcs, fws[j][1]) = "ok"

\* the bytes a name resolves to (the last source of that name)
source_of(srcs, name) ==
    LET i == CHOOSE i \in 1..Len(srcs) :
                 srcs[i].name = name /\ \A j \in (i + 1)..Len(srcs) : srcs[j].name # name
    IN srcs[i].data

\* (name, size) of every source: what the directory walk / getmembers() reports
sizes_of(srcs) == [i \in 1..Len(srcs) |-> <<srcs[i].name, U64(Len(srcs[i].data))>>]

\* the copy loop: the bytes of every listed member, in list order
copy_all(srcs, fws) == Concat([i \in 1..Len(fws) |-> source_of(srcs, fws[i][1])])

\* the copy loop of pack_files after head has been written; k is the first
\* member it cannot copy.  open() fails with the path in the exception, a
\* failing read raises a bare OSError
files_loop(srcs, fws, k, head) ==
    IF k = 0 THEN PRes(Ok(<<>>), head \o copy_all(srcs, fws))
    ELSE PRes(IF src_of(srcs, fws[k][1]) = "noopen"
              THEN FailOn("FileNotFoundError", fws[k][1])
              ELSE Fail("OSError"),
              head \o copy_all(srcs, Take(fws, k - 1)))

\* the copy loop of pack_tar: whatever extractfile or the copy raises is
\* wrapped in RuntimeError("Failed to extract file `name`.")
tar_loop(srcs, fws, k, head) ==
    IF k = 0 THEN PRes(Ok(<<>>), head \o copy_all(srcs, fws))
    ELSE PRes(FailOn("RuntimeError", fws[k][1]), head \o copy_all(srcs, Take(fws, k - 1)))

pack_files(srcs, d) ==
    LET files_with_sizes == sizes_of(srcs)
    IN IF files_with_sizes = <<>> THEN PRes(Fail("ValueError"), d)
       ELSE LET w == write(Header(files_with_sizes, 0))
            IN IF ~w.ok THEN PRes(w, MAGIC)
               ELSE files_loop(srcs, files_with_sizes, first_bad(srcs, files_with_sizes),
                               MAGIC \o w.val)

\* filter(lambda i: i[1] > 0, ...)
RECURSIVE positive_sizes(_)
positive_sizes(fws) ==
    IF fws = <<>> THEN <<>>
    ELSE IF Below(Head(fws)[2], 0) THEN positive_sizes(Tail(fws))
    ELSE <<Head(fws)>> \o positive_sizes(Tail(fws))

pack_tar(srcs, d) ==
    LET files_with_sizes == positive_sizes(sizes_of(srcs))
        w == write(Header(files_with_sizes, 0))
    IN IF ~w.ok THEN PRes(w, MAGIC)
       ELSE tar_loop(srcs, files_with_sizes, first_bad(srcs, files_with_sizes),
                     MAGIC \o w.val)

\* a < b on str: code point by code point, a proper prefix is smaller
StrLess(a, b) ==
    \/ Len(a) < Len(b) /\ a = Take(b, Len(a))
    \/ \E i \in 1..Min(Len(a), Len(b)) : a[i] < b[i] /\ Take(a, i - 1) = Take(b, i - 1)

\* sorted() of a list of (name, size) tuples: by name, then by size
sorted(fws) ==
    LET Less(x, y) == StrLess(x[1], y[1]) \/ (x[1] = y[1] /\ U64Less(x[2], y[2]))
        rank(j) == Cardinality({k \in 1..Len(fws) :
                                   Less(fws[k], fws[j]) \/ (fws[k] = fws[j] /\ k < j)})
    IN [i \in 1..Len(fws) |-> fws[CHOOSE j \in 1..Len(fws) : rank(j) = i - 1]]

\* compress(input_dir, output_path): srcs are the files of the directory in
\* the order the walk finds them; the listing is sorted, the output is opened
\* and the magic written before the header is encoded, and the copy loop is
\* that of pack_files (open, then copy)
compress(srcs, d) ==
    LET file_paths == sorted(sizes_of(srcs))
        w == write(Header(file_paths, 0))
    IN IF ~w.ok THEN PRes(w, MAGIC)
       ELSE files_loop(srcs, file_paths, first_bad(srcs, file_paths), MAGIC \o w.val)


(***************************************************************************)
(* State machine.  The specifications share the module: the codec          *)
(* (SpecCodec), sharding and offsets (SpecShard), the archive from pack to *)
(* the reading of its members (Spec), one member view under every call     *)
(* (SpecView) and two views of one archive side by side (SpecPair).        *)
(***************************************************************************)
Last(op, v, a, w, t, out) ==
    [op |-> op, v |-> v, a |-> a, i |-> IntIndex(0), w |-> w, t |-> t, out |-> out]
LastGet(v, index, out) == [Last("getitem", v, 0, 0, 0, out) EXCEPT !.i = index]
NoCall == Last("none", 0, 0, 0, 0, Ok(<<>>))

IdleCodec == m = <<>> /\ enc = None /\ wire = None /\ dec = None
IdleShard == hdr = None /\ cur = None /\ base = 0 /\ depth = 0 /\ parts = <<>> /\ offs = None
IdleArch ==
    /\ members = <<>> /\ packer = "none" /\ srcKind = "none" /\ disk = None
    /\ sar = None /\ fps = <<>> /\ items = <<>> /\ last = NoCall

(************************* codec ******************************************)
LongName == [i \in 1..LongNameLen |-> 97]
CodecNames == {<<>>, <<233, 8364>>, <<128512>>, LongName}
CodecLens ==
    {U64(0), U64(255), U64(256), U64(65535), U64(65536),
     <<255, 255, 255, 255, 0, 0, 0, 0>>, <<0, 0, 0, 0, 1, 0, 0, 0>>,
     <<255, 255, 255, 255, 255, 255, 255, 255>>}
CodecFiles == UNION {[1..n -> CodecNames \X CodecLens] : n \in 1..MaxFiles}

InitCodec ==
    /\ m \in CodecFiles /\ enc = None /\ wire = None /\ dec = None
    /\ IdleShard /\ IdleArch

\* Header(m).encode(); its bytes are what decode will be given
Encode ==
    /\ enc = None
    /\ enc' = encode(Header(m, 0))
    /\ wire' = IF enc'.ok THEN [kind |-> "encoded", bytes |-> enc'.val] ELSE None
    /\ UNCHANGED <<m, dec, shardVars, archVars>>

\* Header.decode of the bytes at hand
Decode ==
    /\ wire # None /\ dec = None
    /\ dec' = decode(wire.bytes)
    /\ UNCHANGED <<m, enc, wire, shardVars, archVars>>

NextCodec == Encode \/ Decode
SpecCodec == InitCodec /\ [][NextCodec]_vars

(************************* decoding bytes that are not a header ************)
DecodeNames == {<<>>, <<97>>, <<233>>}
DecodeLens == {U64(0), U64(256)}
DecodeFiles == UNION {[1..n -> DecodeNames \X DecodeLens] : n \in 1..MaxFiles}
BadSelectors == {0, 3, 5, 9, 16, 255}

InitDecode ==
    /\ m \in DecodeFiles /\ enc = None /\ wire = None /\ dec = None
    /\ IdleShard /\ IdleArch

\* an encoded header with bytes added behind the names
Trail(extra) ==
    /\ wire # None /\ wire.kind = "encoded" /\ dec = None
    /\ wire' = [kind |-> "trailing", bytes |-> wire.bytes \o extra]
    /\ UNCHANGED <<m, enc, dec, shardVars, archVars>>

\* an encoded header with width-selector byte k replaced
Reselect(k, w) ==
    /\ wire # None /\ wire.kind = "encoded" /\ dec = None
    /\ wire' = [kind |-> "selector", bytes |-> [wire.bytes EXCEPT ![k] = w]]
    /\ UNCHANGED <<m, enc, dec, shardVars, archVars>>

\* an encoded header cut after its first n bytes
Cut(n) ==
    /\ wire # None /\ wire.kind = "encoded" /\ dec = None
    /\ n < Len(wire.bytes)
    /\ wire' = [kind |-> "cut", bytes |-> Take(wire.bytes, n)]
    /\ UNCHANGED <<m, enc, dec, shardVars, archVars>>

NextDecode ==
    \/ Encode
    \/ \E extra \in {<<0>>, <<97, 98>>} : Trail(extra)
    \/ \E k \in 1..2, w \in BadSelectors : Reselect(k, w)
    \/ \E n \in 0..(10 + MaxFiles * 20) : Cut(n)
    \/ Decode
SpecDecode == InitDecode /\ [][NextDecode]_vars

(************************* sharding ***************************************)
ShardLens == {0, 5, 12}
ShardName(i) == <<96 + i>>
ShardHeaders ==
    UNION {{Header([i \in 1..n |-> <<ShardName(i), U64(l[i])>>], 0) :
               l \in [1..n -> ShardLens]} : n \in 0..MaxShardFiles}
HeaderSizes == {25}

InitShard ==
    /\ hdr \in ShardHeaders /\ cur = hdr /\ base = 0 /\ depth = 0
    /\ parts = <<>> /\ offs = None /\ IdleCodec /\ IdleArch

\* every shard of cur for one total_shards
Split(t) ==
    /\ parts = <<>> /\ offs = None
    /\ parts' = [i \in 1..t |-> shard(cur, i - 1, t)]
    /\ UNCHANGED <<hdr, cur, base, depth, offs, codecVars, archVars>>

\* go on with one of the shards; base counts the members of hdr before it,
\* depth is 1 for a shard and 2 for a shard of a shard (or deeper)
Descend(i) ==
    /\ parts # <<>> /\ i \in 1..Len(parts)
    /\ cur' = parts[i]
    /\ base' = base + Min((i - 1) * ceil_div(Len(cur.files), Len(parts)), Len(cur.files))
    /\ depth' = Min(depth + 1, 2)
    /\ parts' = <<>>
    /\ UNCHANGED <<hdr, offs, codecVars, archVars>>

Offsets(size) ==
    /\ parts = <<>> /\ offs = None
    /\ offs' = [size |-> size, val |-> _offsets(cur, size)]
    /\ UNCHANGED <<hdr, cur, base, depth, parts, codecVars, archVars>>

NextShard ==
    \/ \E t \in 1..MaxShards : Split(t)
    \/ \E i \in 1..MaxShards : Descend(i)
    \/ \E size \in HeaderSizes : Offsets(size)
SpecShard == InitShard /\ [][NextShard]_vars


(************************* archive ****************************************)
MemberName(i) == <<96 + i>>
MemberData(i, n) == [k \in 1..n |-> 100 + 10 * i + k]
MemberLens == {0, 1, 2}
ReadSizes == {-1, 0, 1, 2, 3}
MemberLists ==
    UNION {{[i \in 1..n |-> [name |-> MemberName(i), data |-> MemberData(i, l[i]),
                              src |-> "ok"]] :
               l \in [1..n -> MemberLens]} : n \in 0..MaxMembers}

\* the same lists with sources that cannot be opened or read among them
SrcStates == {"ok", "noopen", "noread"}
MemberListsBroken ==
    UNION {{[i \in 1..Len(ms) |-> [ms[i] EXCEPT !.src = st[i]]] :
               st \in [1..Len(ms) -> SrcStates]} : ms \in MemberLists}

\* the files of a directory, in either order a walk may report them
Reverse(s) == [i \in 1..Len(s) |-> s[Len(s) + 1 - i]]
DirListings == MemberLists \cup {Reverse(ms) : ms \in MemberLists}
Packers == {"files", "tar", "compress"}

PathSrc == [kind |-> "path"]
StreamSrc == [kind |-> "stream", id |-> 1]

Init ==
    /\ packer \in Packers
    /\ members \in IF packer = "compress" THEN DirListings ELSE MemberLists
    /\ srcKind \in {"path", "stream"}
    /\ disk = None /\ sar = None /\ fps = <<>> /\ items = <<>> /\ last = NoCall
    /\ IdleCodec /\ IdleShard

\* sarfile.pack_files / sarfile.pack_tar / compress on the source members
Pack ==
    /\ last.op = "none"
    /\ LET r == IF packer = "files" THEN pack_files(members, disk)
                ELSE IF packer = "tar" THEN pack_tar(members, disk)
                ELSE compress(members, disk)
       IN /\ disk' = r.disk
          /\ last' = Last("pack", 0, 0, 0, 0, r.out)
    /\ UNCHANGED <<members, packer, srcKind, sar, fps, items, codecVars, shardVars>>

\* files that are not archives: the output with one byte of the magic
\* replaced, or cut short inside the preamble
Damaged(d) ==
    {[d EXCEPT ![i] = 88] : i \in 1..Len(MAGIC)} \cup {Take(d, n) : n \in {0, 3, 4, 11}}

\* something else than pack has written the file that will be opened
Damage ==
    /\ last.op = "pack" /\ disk # None
    /\ disk' \in Damaged(disk)
    /\ last' = Last("damage", 0, 0, 0, 0, Ok(<<>>))
    /\ UNCHANGED <<members, packer, srcKind, sar, fps, items, codecVars, shardVars>>

\* sarfile.open on the path of the archive, or on a stream the caller has
\* opened over it (at position p)
Open(p) ==
    /\ last.op \in {"pack", "damage"} /\ disk # None
    /\ srcKind = "path" => p = 0
    /\ \E r \in {open(IF srcKind = "path" THEN PathSrc ELSE StreamSrc,
                      IF srcKind = "path" THEN <<>> ELSE <<[pos |-> p, closed |-> FALSE]>>,
                      disk)} :
          /\ fps' = r.fps
          /\ sar' = IF r.out.ok THEN r.out.val ELSE None
          /\ last' = Last("open", 0, p, 0, 0, IF r.out.ok THEN Ok(<<>>) ELSE r.out)
    /\ UNCHANGED <<members, packer, srcKind, disk, items, codecVars, shardVars>>

\* sarfile.__getitem__ with an int or a name
GetItem(index) ==
    /\ sar # None /\ Len(fps) < MaxStreams
    /\ LET r == getitem(sar, fps, disk, index)
       IN /\ fps' = r.fps
          /\ items' = IF r.out.ok THEN Append(items, r.out.val) ELSE items
          /\ last' = LastGet(IF r.out.ok THEN Len(items) + 1 ELSE 0, index,
                             IF r.out.ok THEN Ok(<<>>) ELSE r.out)
    /\ UNCHANGED <<members, packer, srcKind, disk, sar, codecVars, shardVars>>

ItemRead(v, n) ==
    /\ v \in 1..Len(items)
    /\ LET it == items[v]
           r == read(it, fps[it.fp], disk, n)
       IN /\ fps' = [fps EXCEPT ![it.fp] = r.fp]
          /\ last' = Last("read", v, n, 0, 0, r.out)
    /\ UNCHANGED <<members, packer, srcKind, disk, sar, items, codecVars, shardVars>>

\* the absolute position a seek asks for, cut off one step outside the member
seek_target(it, fp, offset, whence) ==
    LET t == IF whence = 0 THEN it.start + offset
             ELSE IF whence = 1 THEN fp.pos + offset
             ELSE it.end + offset
    IN Max(it.start - 1, Min(it.end + 1, t))

ItemSeek(v, offset, whence) ==
    /\ v \in 1..Len(items)
    /\ LET it == items[v]
           r == seek(it, fps[it.fp], disk, offset, whence)
       IN /\ fps' = [fps EXCEPT ![it.fp] = r.fp]
          /\ last' = Last("seek", v, 0, whence,
                          seek_target(it, fps[it.fp], offset, whence), r.out)
    /\ UNCHANGED <<members, packer, srcKind, disk, sar, items, codecVars, shardVars>>

ItemTell(v) ==
    /\ v \in 1..Len(items)
    /\ LET it == items[v]
           r == tell(it, fps[it.fp])
       IN last' = Last("tell", v, 0, 0, 0, r.out)
    /\ UNCHANGED <<members, packer, srcKind, disk, sar, fps, items, codecVars, shardVars>>

ItemClose(v) ==
    /\ v \in 1..Len(items)
    /\ LET it == items[v]
       IN /\ fps' = [fps EXCEPT ![it.fp] = close(it, fps[it.fp])]
          /\ last' = Last("close", v, 0, 0, 0, Ok(<<>>))
    /\ UNCHANGED <<members, packer, srcKind, disk, sar, items, codecVars, shardVars>>

\* one of the calls a view does not support
ItemUnsupported(v, op) ==
    /\ v \in 1..Len(items)
    /\ LET it == items[v]
           r == unsupported(op, it, fps[it.fp])
       IN /\ fps' = [fps EXCEPT ![it.fp] = r.fp]
          /\ last' = Last(op, v, 0, 0, 0, r.out)
    /\ UNCHANGED <<members, packer, srcKind, disk, sar, items, codecVars, shardVars>>


Next ==
    \/ Pack
    \/ Damage
    \/ \E p \in {0, 1} : Open(p)
    \/ \E i \in (-(MaxMembers + 1))..MaxMembers : GetItem(IntIndex(i))
    \/ \E i \in 1..(MaxMembers + 1) : GetItem(StrIndex(MemberName(i)))
    \/ \E v \in 1..Len(items), n \in ReadSizes : ItemRead(v, n)
    \/ \E v \in 1..Len(items) : ItemClose(v)
Spec == Init /\ [][Next]_vars

(************************* packing from failing sources *******************)
InitPack ==
    /\ members \in MemberListsBroken
    /\ packer \in Packers
    /\ srcKind = "path"
    /\ disk = None /\ sar = None /\ fps = <<>> /\ items = <<>> /\ last = NoCall
    /\ IdleCodec /\ IdleShard

NextPack == Pack
SpecPack == InitPack /\ [][NextPack]_vars

(************************* one member view ********************************)
\* the views of the members of every archive that pack_files writes, each
\* just returned by sarfile.open(path)[i]
InitView ==
    /\ members \in MemberLists /\ members # <<>>
    /\ packer = "files" /\ srcKind = "path"
    /\ disk = pack_files(members, None).disk
    /\ \E o \in {open(PathSrc, <<>>, disk)} :
          /\ sar = o.out.val
          /\ \E i \in 0..(Len(members) - 1) :
                \E g \in {getitem(sar, o.fps, disk, IntIndex(i))} :
                   /\ fps = g.fps
                   /\ items = <<g.out.val>>
                   /\ last = LastGet(1, IntIndex(i), Ok(<<>>))
    /\ IdleCodec /\ IdleShard

\* the offsets tried on the single view: those around 0, and those around
\* minus the size of the file (where a seek from the end of the file lands
\* next to the member)
SeekOffsets(d) ==
    {o \in (-(Len(d) + MaxOff))..MaxOff : o >= -MaxOff \/ o <= MaxOff - Len(d)}

NextView ==
    \/ \E n \in ReadSizes : ItemRead(1, n)
    \/ \E offset \in SeekOffsets(disk), whence \in 0..3 : ItemSeek(1, offset, whence)
    \/ ItemTell(1)
    \/ ItemClose(1)
    \/ \E op \in UnsupportedOps : ItemUnsupported(1, op)
SpecView == InitView /\ [][NextView]_vars


(************************* two member views ********************************)
\* two views of one archive, just returned by handle[i] and handle[j]
InitPair ==
    /\ members \in MemberLists /\ members # <<>>
    /\ packer = "files" /\ srcKind = "path"
    /\ disk = pack_files(members, None).disk
    /\ \E o \in {open(PathSrc, <<>>, disk)} :
          /\ sar = o.out.val
          /\ \E i, j \in 0..(Len(members) - 1) :
                \E g1 \in {getitem(sar, o.fps, disk, IntIndex(i))} :
                   \E g2 \in {getitem(sar, g1.fps, disk, IntIndex(j))} :
                      /\ fps = g2.fps
                      /\ items = <<g1.out.val, g2.out.val>>
                      /\ last = LastGet(2, IntIndex(j), Ok(<<>>))
    /\ IdleCodec /\ IdleShard

NextPair ==
    \/ \E v \in 1..2, n \in ReadSizes : ItemRead(v, n)
    \/ \E v \in 1..2, offset \in (-MaxSeek)..MaxSeek, whence \in 0..2 :
           ItemSeek(v, offset, whence)
    \/ \E v \in 1..2 : ItemTell(v)
    \/ \E v \in 1..2 : ItemClose(v)
SpecPair == InitPair /\ [][NextPair]_vars

(***************************************************************************)
(* Properties                                                              *)
(***************************************************************************)
ItemFp(v) == fps[items[v].fp]

\* where the stream of view v stood before the last call (a read moves it by
\* the bytes it returned)
PrePos(v) == ItemFp(v).pos - (IF last.op = "read" /\ last.out.ok THEN Len(last.out.val) ELSE 0)

\* C1: decode(encode(m)) = Header(m) for every non-empty list m of
\* (name, length) pairs with lengths in the unsigned 64-bit range: encode
\* succeeds and decode gives back the same names and lengths in the same order.
C1_RoundTrip ==
    /\ enc # None => enc.ok
    /\ dec # None => dec.ok /\ dec.val = Header(m, 0)

\* a header whose length column is 8 bytes wide and whose name-length column
\* is 2 bytes wide has been encoded and decoded
C1_Witness ==
    /\ dec # None /\ dec.ok /\ Len(m) = 2 /\ m[1] # m[2]
    /\ enc.val[1] = 8 /\ enc.val[2] = 2

\* the view that handle[name] returns for the member called name
ByName(it) ==
    /\ HasName(sar, it.name)
    /\ it.start = sar.offsets[name_index(sar, it.name) + 1]
    /\ it.num_bytes = IntOf(sar.header.files[name_index(sar, it.name) + 1][2])

\* C2: pack then open is a round trip: len(handle) is the number of members,
\* handle.names is the member names in order, and handle[name].read(length)
\* gives exactly that member's bytes, on both pack paths.
C2_PackOpenRoundTrip ==
    packer \in {"files", "tar"} =>
    /\ sar # None =>
          /\ len(sar) = Len(members)
          /\ names(sar) = [i \in 1..Len(members) |-> members[i].name]
    /\ (/\ last.op = "read" /\ ByName(items[last.v])
        /\ last.a = items[last.v].num_bytes
        /\ ~ItemFp(last.v).closed
        /\ PrePos(last.v) = items[last.v].start)
       => last.out.ok /\ last.out.val = source_of(members, items[last.v].name)

\* C3: tell() of a member view of length L is in [0, L] after any sequence of
\* read, seek and tell calls.
C3_TellInRange ==
    \A v \in 1..Len(items) :
        LET t == tell(items[v], ItemFp(v))
        IN t.out.ok => t.out.val >= 0 /\ t.out.val <= items[v].num_bytes

\* C4: a read never returns a byte outside [start, start+length): what it
\* returns is the bytes from the cursor on, at most up to start+length; with
\* n < 0 exactly those up to start+length; and at start+length a read(1)
\* fails or returns nothing.
C4_ReadContained ==
    (last.op = "read" /\ last.out.ok) =>
        LET it == items[last.v]
            pre == PrePos(last.v)
            got == last.out.val
        IN /\ got # <<>> => pre >= it.start /\ pre + Len(got) <= it.end
           /\ last.a < 0 => got = Slice(disk, pre, it.end)
           /\ (pre = it.end /\ last.a = 1) => got = <<>>

\* C5: a seek whose computed absolute position (start+offset, cursor+offset,
\* start+length+offset) lies outside [start, start+length] fails.
C5_SeekOutsideFails ==
    (/\ last.op = "seek" /\ last.w \in {0, 1, 2}
     /\ (last.t < items[last.v].start \/ last.t > items[last.v].end))
    => (~last.out.ok /\ last.out.err = "ValueError")

C7_GetAlwaysSucceeds ==
    (last.op = "getitem" /\ ~last.i.str /\ last.i.v >= 0 /\ last.i.v < len(sar))
    => /\ last.out.ok
       /\ LET it == items[last.v]
          IN /\ tell(it, ItemFp(last.v)).out = Ok(0)
             /\ it.start = sar.offsets[last.i.v + 1]
             /\ it.num_bytes = IntOf(sar.header.files[last.i.v + 1][2])

\* C8: the member lists of shard(0, t), ..., shard(t-1, t), concatenated in
\* shard-id order, are the original member list; 7 members in 3 shards give
\* shards of 3, 3 and 1 members.
C8_ShardsPartition ==
    parts # <<>> =>
        /\ Concat([i \in 1..Len(parts) |-> parts[i].files]) = cur.files
        /\ (Len(cur.files) = 7 /\ Len(parts) = 3) =>
               [i \in 1..3 |-> Len(parts[i].files)] = <<3, 3, 1>>

\* a header of 7 members with lengths that differ has been split in 3
C8_Witness ==
    /\ parts # <<>> /\ Len(parts) = 3 /\ Len(cur.files) = 7
    /\ cur.files[1][2] # cur.files[2][2]

\* C9: the offset computed from a shard alone for its j-th member is the
\* offset computed from the unsharded header for member start+j, also for a
\* shard of a shard; the shard's init_offset is the sum of the lengths of the
\* members before its start.
C9_ShardOffsetsAgree ==
    offs # None =>
        /\ \A j \in 1..Len(cur.files) :
               offs.val[j] = _offsets(hdr, offs.size)[base + j]
        /\ cur.init_offset =
               hdr.init_offset + SumSeq(SubSeq(num_bytes_of(hdr), 1, base))

\* the offsets of a non-empty shard of a shard that does not start at the
\* first member
C9_Witness ==
    /\ offs # None /\ depth = 2 /\ Len(cur.files) >= 1 /\ base > 0
    /\ cur.init_offset > 0 /\ Len(hdr.files) = 7 /\ Len(cur.files) < 3

\* C10: offsets(header, size) has one entry per member (N entries), entry i
\* being size + init_offset + the lengths of the members before i.
C10_OneOffsetPerMember ==
    offs # None =>
        /\ Len(offs.val) = Len(cur.files)
        /\ \A i \in 1..Len(cur.files) :
               offs.val[i] = offs.size + cur.init_offset
                             + SumSeq(SubSeq(num_bytes_of(cur), 1, i - 1))

\* C11: packing an empty member list fails with ValueError (EmptyArchive)
\* and writes no output file, on pack_files and on pack_tar: after the failed
\* call the output does not exist, not even with the magic in it.
C11_EmptyPackWritesNothing ==
    (last.op = "pack" /\ packer \in {"files", "tar"} /\ members = <<>>) =>
        /\ ~last.out.ok /\ last.out.err = "ValueError"
        /\ disk = None

\* C12: opening a source (from its beginning) whose first 4 bytes are not
\* the magic fails with IOError (BadMagic); the stream has then been read no
\* further than the preamble, so no header byte was read and nothing was
\* decoded; no handle is produced.
C12_BadMagicFails ==
    (last.op = "open" /\ last.a = 0 /\ Take(disk, Len(MAGIC)) # MAGIC) =>
        /\ ~last.out.ok /\ last.out.err = "IOError"
        /\ sar = None
        /\ fps[Len(fps)].pos <= PRE_HEADER_SIZE /\ fps[Len(fps)].closed

\* a stream over a file with one wrong magic byte and a whole header behind
\* the preamble has been opened
C12_Witness ==
    /\ last.op = "open" /\ srcKind = "stream" /\ ~last.out.ok
    /\ Len(disk) > PRE_HEADER_SIZE + 10
    /\ Take(disk, Len(MAGIC)) # MAGIC /\ Drop(disk, 1) = Drop(MAGIC, 1) \o Drop(disk, Len(MAGIC))

\* C13: a read(n) with n >= 0 on an open member view follows one policy: when
\* cursor+n would cross start+length it fails with ValueError (OutOfRange),
\* returns nothing clamped and leaves the cursor where it was; when
\* cursor+n <= start+length it returns exactly the n bytes at the cursor and
\* the cursor, hence tell(), advances by n.
C13_ReadBoundary ==
    [][(last'.op = "read" /\ last'.a >= 0 /\ ~fps[items[last'.v].fp].closed) =>
          LET it == items[last'.v]
              pre == fps[it.fp].pos
              post == fps'[it.fp].pos
              n == last'.a
          IN IF pre + n > it.end
             THEN /\ ~last'.out.ok /\ last'.out.err = "ValueError"
                  /\ post = pre
             ELSE /\ last'.out.ok /\ last'.out.val = SubSeq(disk, pre + 1, pre + n)
                  /\ post = pre + n]_vars

\* a read(2) one byte before the end of a 2-byte member has failed
C13_Witness ==
    /\ last.op = "read" /\ last.a = 2 /\ ~last.out.ok
    /\ items[1].num_bytes = 2 /\ ItemFp(1).pos = items[1].end - 1 /\ ~ItemFp(1).closed

\* C16: readline, readlines, truncate, write, writelines, __iter__ and
\* __next__ on a member view fail with NotImplementedError in every state of
\* the view and leave its stream (cursor, closed flag) and the bytes of the
\* file unchanged; writable() is false.
C16_UnsupportedFail ==
    [][/\ last'.op \in UnsupportedOps =>
             /\ ~last'.out.ok /\ last'.out.err = "NotImplementedError"
             /\ fps' = fps /\ disk' = disk /\ items' = items
       /\ \A v \in 1..Len(items) : ~writable(items[v], ItemFp(v))]_vars

\* a write on a closed view whose cursor had been moved
C16_Witness ==
    /\ last.op = "write" /\ ~last.out.ok /\ ItemFp(1).closed
    /\ ItemFp(1).pos > items[1].start

\* the members the packer lists, in order
Listed ==
    IF packer = "files" THEN sizes_of(members)
    ELSE IF packer = "tar" THEN positive_sizes(sizes_of(members))
    ELSE sorted(sizes_of(members))

\* C14: when opening or reading the bytes of listed member k fails during
\* pack, pack does not return normally, the output holds the magic, the
\* header and the bytes of the members before k only (nothing of a member
\* after k), and the error carries the name of member k, on both pack paths.
C14_SourceFailureAborts ==
    (last.op = "pack" /\ packer \in {"files", "tar"} /\ first_bad(members, Listed) # 0) =>
        LET k == first_bad(members, Listed)
        IN /\ ~last.out.ok
           /\ disk = MAGIC \o write(Header(Listed, 0)).val
                          \o copy_all(members, Take(Listed, k - 1))
           /\ last.out.val = <<Listed[k][1]>>

\* C15: Header.decode fails, it never returns a Header, when bytes remain
\* unconsumed after all N names have been extracted, and when either of the
\* two width-selector bytes is not one of 1, 2, 4, 8.
C15_MalformedRejected ==
    (dec # None /\ wire.kind \in {"trailing", "selector"}) =>
        /\ ~dec.ok
        /\ wire.kind = "trailing" => dec.err = "AssertionError"
        /\ wire.kind = "selector" => dec.err = "ValueError"

\* a header of two members with two bytes added behind the names has been
\* given to decode
C15_Witness ==
    /\ dec # None /\ wire.kind = "trailing" /\ Len(m) = 2
    /\ Len(wire.bytes) = Len(enc.val) + 2 /\ m[2][1] # <<>>

\* C17: in a packed archive the encoded header comes at the end of the file,
\* after all member bytes: the file ends with the bytes of Header.encode, and
\* the bytes of the listed members, in list order, stand right before them.
C17_HeaderAtEnd ==
    (last.op = "pack" /\ last.out.ok) =>
        LET hb == write(Header(Listed, 0)).val
            data == copy_all(members, Listed)
        IN /\ Len(disk) >= Len(hb) + Len(data)
           /\ Drop(disk, Len(disk) - Len(hb)) = hb
           /\ SubSeq(disk, Len(disk) - Len(hb) - Len(data) + 1, Len(disk) - Len(hb)) = data

\* C18: for each of the three reference points, a seek on an open view whose
\* computed absolute position (start+offset, cursor+offset,
\* start+length+offset) lies inside [start, start+length] succeeds, and
\* afterwards tell() equals that position minus start.
C18_SeekInsideSucceeds ==
    (/\ last.op = "seek" /\ last.w \in {0, 1, 2}
     /\ ~ItemFp(last.v).closed
     /\ last.t >= items[last.v].start /\ last.t <= items[last.v].end)
    => /\ last.out.ok
       /\ tell(items[last.v], ItemFp(last.v)).out.val = last.t - items[last.v].start

\* C19: in the encoded header the width byte of the length column is the
\* smallest w in {1, 2, 4, 8} with max(lengths) < 2^(8w), the width byte of
\* the name-length column is the smallest such w for the maximum UTF-8 name
\* byte-length, and the encoded header is exactly
\* 10 + N*(w_len + w_name) + (sum of name byte-lengths) bytes long.
C19_SmallestWidths ==
    (enc # None /\ enc.ok) =>
        LET N == Len(m)
            Smallest(x) == CHOOSE w \in {1, 2, 4, 8} :
                               /\ Below(x, w)
                               /\ \A u \in {1, 2, 4, 8} : u < w => ~Below(x, u)
            \* UTF-8: one byte per code point, one more from 128, 2048, 65536 on
            Over(i, k) == Cardinality({j \in 1..Len(m[i][1]) : m[i][1][j] >= k})
            NameBytes(i) == Len(m[i][1]) + Over(i, 128) + Over(i, 2048) + Over(i, 65536)
            w_len == enc.val[1]
            w_name == enc.val[2]
        IN /\ \E i \in 1..N :
                 /\ \A j \in 1..N : ~U64Less(m[i][2], m[j][2])
                 /\ w_len = Smallest(m[i][2])
           /\ \E i \in 1..N :
                 /\ \A j \in 1..N : NameBytes(j) <= NameBytes(i)
                 /\ w_name = Smallest(U64(NameBytes(i)))
           /\ Len(enc.val) = 10 + N * (w_len + w_name)
                                + SumSeq([i \in 1..N |-> NameBytes(i)])

\* a header of two members whose length column is 4 bytes wide and whose
\* name-length column is 2 bytes wide has been encoded
C19_Witness ==
    /\ enc # None /\ enc.ok /\ dec = None /\ Len(m) = 2
    /\ enc.val[1] = 4 /\ enc.val[2] = 2
    /\ m[1][1] = <<233, 8364>>

\* C20: shard(shard_id, total_shards) with shard_id * ceil(N/total_shards) >= N
\* returns a Header with an empty member list whose init_offset is the
\* init_offset of the header it shards plus the sum of the lengths of all N
\* members.
C20_EmptyShard ==
    parts # <<>> =>
        LET N == Len(cur.files)
            t == Len(parts)
            block == IF N % t = 0 THEN N \div t ELSE (N \div t) + 1
        IN \A i \in 1..t :
               (i - 1) * block >= N =>
                   /\ parts[i].files = <<>>
                   /\ parts[i].init_offset =
                          cur.init_offset + SumSeq([j \in 1..N |-> IntOf(cur.files[j][2])])

\* a shard of two members that does not start at offset 0 has been split in
\* three: the third shard is empty and starts behind both members
C20_Witness ==
    /\ parts # <<>> /\ Len(parts) = 3 /\ Len(cur.files) = 2 /\ depth >= 1
    /\ cur.init_offset > 0 /\ parts[3].files = <<>>
    /\ parts[3].init_offset > cur.init_offset + IntOf(cur.files[1][2])

\* C21: Header.decode fails on every truncated header: for an input shorter
\* than the encoding (10 + N*(w_len + w_name) + the declared name bytes),
\* also when only trailing name bytes are missing, decode raises and returns
\* no Header.
C21_TruncatedRejected ==
    (dec # None /\ wire.kind = "cut") => ~dec.ok

\* C22: for every integer index that __getitem__ accepts, the negative
\* indices -N..-1 included, the view's name, length and start offset belong
\* to one member: the start offset is the preamble and header size plus the
\* sum of the lengths of the members before that member.
C22_ViewOfOneMember ==
    (last.op = "getitem" /\ ~last.i.str /\ last.out.ok) =>
        LET N == Len(sar.header.files)
            k == IF last.i.v >= 0 THEN last.i.v + 1 ELSE N + last.i.v + 1
            it == items[last.v]
        IN /\ k \in 1..N
           /\ it.name = sar.header.files[k][1]
           /\ it.num_bytes = IntOf(sar.header.files[k][2])
           /\ it.start = PRE_HEADER_SIZE + Len(encode(sar.header).val)
                            + SumSeq(SubSeq(num_bytes_of(sar.header), 1, k - 1))

\* C23: a lookup that fails (unknown name, index out of range) on an archive
\* opened from a path leaves as many stream handles open as there were
\* before it, and leaves the archive's header and offsets unchanged.
C23_FailedGetLeavesNoStream ==
    [][(last'.op = "getitem" /\ ~last'.out.ok /\ srcKind = "path") =>
          LET OpenStreams(f) == {k \in 1..Len(f) : ~f[k].closed}
          IN /\ Cardinality(OpenStreams(fps')) = Cardinality(OpenStreams(fps))
             /\ sar' = sar]_vars

\* C24: every successful seek on a member view returns the new
\* member-relative position, the value tell() returns right afterwards, for
\* the three whence values and for members that do not start at offset 0.
C24_SeekReturnsTell ==
    (last.op = "seek" /\ last.out.ok) =>
        last.out = tell(items[last.v], ItemFp(last.v)).out

====
